---- MODULE Spec2Model ----
(***************************************************************************)
(* Verification model of the customs exchange-rate dataset generator.      *)
(*                                                                         *)
(* Three generator revisions live in the repository: the revision with     *)
(* prior-snapshot reuse (src/unnamed/part_000) and two revisions with      *)
(* synthetic mock data (src/unnamed/part_001, src/unnamed/part_002).       *)
(*                                                                         *)
(* Time is counted in minutes since 1970-01-01T00:00Z (the code's          *)
(* milliseconds divided by 60000).  Text is a sequence of one-character    *)
(* strings, so that formatting and parsing are real conversions.           *)
(***************************************************************************)
EXTENDS Integers, Sequences, FiniteSets, TLC

VARIABLES
    now,          \* the instant new Date() returns, minutes since the epoch
    tz,           \* machine-local timezone: [base, shiftAt, shift] (minutes east of UTC)
    count,        \* SpecSundays: the argument of getRecentSundays
    pcS,          \* SpecSundays: "input" | "done"
    revision,     \* SpecSundays: which revision of getRecentSundays produced dates
    dates,        \* SpecSundays: the returned anchor list
    SERVICE_KEY,  \* the credential of the running process, <<>> when missing
    file,         \* public/exchange-rates.json: [state, weeks]
    pc,           \* position of main: "idle" | "await" | "built" | "written"
    sundays,      \* buildDataset: the anchors of this run
    existingWeeksMap, \* buildDataset: startDate -> week of the loaded snapshot
    weeks,        \* buildDataset: the weeks assembled so far
    idx,          \* buildDataset: position of the for loop in sundays (1-based)
    fetch,        \* the two fetchWeek calls of the current anchor: <<anchor, type>> -> [st, result]
    fetched,      \* for each anchor already finalized: [date, both], both = each fetchWeek returned records
    requests,     \* HTTP requests issued in this run: <<anchor, type>> -> number
    table,        \* what the process wrote to public/table.html, <<>> while it has not
    exitCode,     \* exit status of the process once it has ended, -1 before
    pcC,          \* SpecClean: "input" | "done"
    xmlItems,     \* SpecClean: the item value of a parsed upstream answer
    xmlType,      \* SpecClean: the direction code fetchWeek was called with
    cleaned       \* SpecClean: what fetchWeek returned for it

sundayVars == <<count, pcS, revision, dates>>
runVars == <<SERVICE_KEY, file, pc, sundays, existingWeeksMap, weeks, idx, fetch,
             fetched, requests, table, exitCode>>
cleanVars == <<pcC, xmlItems, xmlType, cleaned>>

VARIABLES
    pcT,          \* SpecTable: "idle" | "input" | "memory" | "snapshot" | "skipped" | "failed"
    payload,      \* SpecTable: the weeks of the dataset the table is rendered from
    html,         \* SpecTable: the page written, <<>> when none was
    pcE,          \* SpecEscape: "idle" | "input" | "done"
    value,        \* SpecEscape: the argument of escapeHtml
    escaped       \* SpecEscape: the text escapeHtml returned

VARIABLES
    pcL,          \* SpecLoad: "idle" | "input" | "loaded" | "failed"
    persisted,    \* SpecLoad: the weeks of /exchange-rates.json as they are stored
    dataset,      \* SpecLoad: the weeks the frontend works with after the load
    mounted,      \* SpecApp: "no" | "yes" | "gone"
    activeType,   \* SpecApp: the activeType state of App
    hasNext,      \* SpecApp: allData holds records of the next week's Sunday
    loads,        \* SpecApp: the loadData calls awaiting their fetches: [id, type]
    loadedType,   \* SpecApp: the activeType of the loadData call whose result allData holds, <<>> before any
    loadSettled,  \* SpecApp: the loadData call made on mount has settled
    poll,         \* SpecApp: for every instance of the polling effect: [st, saw]
    pollingRef    \* SpecApp: pollingRef.current: 0 (null) or the instance whose timer was set last

tableVars == <<pcT, payload, html>>
escapeVars == <<pcE, value, escaped>>
loadVars == <<pcL, persisted, dataset>>
appVars == <<mounted, activeType, hasNext, loads, loadedType, loadSettled, poll, pollingRef>>
restVars == <<tableVars, escapeVars, loadVars, appVars>>
vars == <<now, tz, sundayVars, runVars, cleanVars, restVars>>

----------------------------------------------------------------------------
(* Bounds of the model. *)

\* days (since the epoch) on which the windows of checked instants start:
\* Saturday 2023-12-30 (year boundary) and Friday 2024-03-01 (after a leap day)
WindowStartYear == 19721
WindowStartLeap == 19783
\* length of each window in days; instants are taken every hour
WindowDays == 9
\* largest count given to getRecentSundays in SpecSundays
MaxCount == 3

----------------------------------------------------------------------------
(* Text helpers (String.prototype semantics). *)

DigitChars == <<"0", "1", "2", "3", "4", "5", "6", "7", "8", "9">>

\* String(n) for a non-negative integer
RECURSIVE String(_)
String(n) == IF n < 10 THEN <<DigitChars[n + 1]>>
             ELSE String(n \div 10) \o <<DigitChars[(n % 10) + 1]>>

\* s.padStart(len, ch)
RECURSIVE padStart(_, _, _)
padStart(s, len, ch) == IF Len(s) >= len THEN s ELSE padStart(<<ch>> \o s, len, ch)

\* s.substring(a, b), clamped to the length of s as JavaScript does
substring(s, a, b) ==
    LET hi == IF b > Len(s) THEN Len(s) ELSE b
    IN  IF a >= hi THEN <<>> ELSE SubSeq(s, a + 1, hi)

\* value of a one-character digit
DigitValue(c) == CHOOSE v \in 0..9 : DigitChars[v + 1] = c

\* decimal value of a text made of digits
RECURSIVE ParseDigits(_)
ParseDigits(s) == IF s = <<>> THEN 0
                  ELSE 10 * ParseDigits(SubSeq(s, 1, Len(s) - 1)) + DigitValue(s[Len(s)])

----------------------------------------------------------------------------
(* Calendar (the proleptic Gregorian calendar Date uses). *)

\* day number (days since 1970-01-01) of a civil date; month is 1..12 and
\* day may be out of range, as Date.setDate allows
DaysFromCivil(y, m, d) ==
    LET yy  == IF m <= 2 THEN y - 1 ELSE y
        era == yy \div 400
        yoe == yy - era * 400
        mp  == IF m > 2 THEN m - 3 ELSE m + 9
        doy == (153 * mp + 2) \div 5 + d - 1
        doe == yoe * 365 + yoe \div 4 - yoe \div 100 + doy
    IN  era * 146097 + doe - 719468

\* civil date [y, m, d] of a day number
CivilFromDays(z0) ==
    LET z   == z0 + 719468
        era == z \div 146097
        doe == z - era * 146097
        yoe == (doe - doe \div 1460 + doe \div 36524 - doe \div 146096) \div 365
        doy == doe - (365 * yoe + yoe \div 4 - yoe \div 100)
        mp  == (5 * doy + 2) \div 153
        d   == doy - (153 * mp + 2) \div 5 + 1
        m   == IF mp < 10 THEN mp + 3 ELSE mp - 9
    IN  [y |-> yoe + era * 400 + (IF m <= 2 THEN 1 ELSE 0), m |-> m, d |-> d]

----------------------------------------------------------------------------
(* Date objects.  An instant is read through the machine-local timezone;   *)
(* a Date changed by setDate is kept as its local day number, the only     *)
(* thing the code reads from it afterwards.                                *)

\* minutes east of UTC that the machine-local timezone has at instant t
LocalOffset(t) == tz.base + (IF t >= tz.shiftAt THEN tz.shift ELSE 0)

\* Date.prototype.getTimezoneOffset, in minutes
getTimezoneOffset(t) == 0 - LocalOffset(t)

\* local day number of the Date holding instant t
LocalDay(t) == (t + LocalOffset(t)) \div 1440

\* Date.prototype.getDay / getDate / getMonth / getFullYear of a local day
getDay(day) == (day + 4) % 7
getDate(day) == CivilFromDays(day).d
getMonth(day) == CivilFromDays(day).m - 1
getFullYear(day) == CivilFromDays(day).y

\* setDate that does not roll over into the previous month: a day below 1
\* is taken as day 1
setDate_Clamped(day, n) ==
    DaysFromCivil(getFullYear(day), getMonth(day) + 1, 1) + (IF n < 1 THEN 1 ELSE n) - 1

\* Date.prototype.setDate(n): day n of the Date's month, n out of range allowed
setDate(day, n) == DaysFromCivil(getFullYear(day), getMonth(day) + 1, 1) + n - 1

\* `${year}${month}${day}` with month and day padded to two digits
FormatCompact(day) ==
    String(getFullYear(day))
      \o padStart(String(getMonth(day) + 1), 2, "0")
      \o padStart(String(getDate(day)), 2, "0")

\* new Date(utc + 9 * 60 * 60 * 1000), utc = now.getTime() + offset * 60000
kstDate == (now + getTimezoneOffset(now)) + 9 * 60

\* thisSunday without the final % 7: a Sunday moves on to the next Sunday
thisSunday_NoMod ==
    LET day == LocalDay(kstDate)
        dayOfWeek == getDay(day)
    IN  setDate(day, getDate(day) + (7 - dayOfWeek))

\* part_000: thisSunday.setDate(kstDate.getDate() + (7 - dayOfWeek) % 7)
thisSunday ==
    LET day == LocalDay(kstDate)
        dayOfWeek == getDay(day)
    IN  setDate(day, getDate(day) + ((7 - dayOfWeek) % 7))

\* part_001, part_002: lastSunday.setDate(kstDate.getDate() - kstDate.getDay())
lastSunday ==
    LET day == LocalDay(kstDate)
    IN  setDate(day, getDate(day) - getDay(day))

\* getRecentSundays(count) of part_000
getRecentSundays(cnt) ==
    [k \in 1..cnt |->
        LET i == k - 1
            d == setDate(thisSunday, getDate(thisSunday) - i * 7)
        IN  FormatCompact(d)]

\* getRecentSundays(count) of part_001 and part_002
getRecentSundays_001(cnt) ==
    [k \in 1..cnt |->
        LET i == k - 1
            d == setDate(lastSunday, getDate(lastSunday) - i * 7)
        IN  FormatCompact(d)]

\* formatDateForDisplay: YYYYMMDD to YYYY-MM-DD
formatDateForDisplay(yyyyMMdd) ==
    substring(yyyyMMdd, 0, 4) \o <<"-">> \o substring(yyyyMMdd, 4, 6)
      \o <<"-">> \o substring(yyyyMMdd, 6, 8)

----------------------------------------------------------------------------
(* Program constants and values of the generator (part_000). *)

\* const WEEK_COUNT = parseInt(process.env.WEEKS_TO_FETCH || '12', 10),
\* with WEEKS_TO_FETCH set to a small number
WEEK_COUNT == 3

RateType_EXPORT == <<"1">>
RateType_IMPORT == <<"2">>
RateTypes == {RateType_EXPORT, RateType_IMPORT}

\* JavaScript numbers as far as the code can tell them apart: a finite
\* value counted in tenths, an infinity (v is its sign), NaN; and the
\* null that JSON has in place of a number
Finite(tenths) == [k |-> "fin", v |-> tenths]
Infinite(sign) == [k |-> "inf", v |-> sign]
NaN == [k |-> "nan", v |-> 0]
JsonNull == [k |-> "null", v |-> 0]

\* the value of an absent property, written as a text no number text equals
Undefined == <<"undefined">>

\* what fetchWeek returns: null or a record list
Null == [isNull |-> TRUE, list |-> <<>>]
Some(l) == [isNull |-> FALSE, list |-> l]

\* position of the first "." of a text, 0 when there is none
RECURSIVE DotAt(_, _)
DotAt(s, i) == IF i > Len(s) THEN 0 ELSE IF s[i] = "." THEN i ELSE DotAt(s, i + 1)

AllDigits(s) == \A i \in 1..Len(s) : \E v \in 0..9 : DigitChars[v + 1] = s[i]

\* StringToNumber of an unsigned text: Infinity, or decimal digits with at
\* most one fraction digit
UnsignedNumber(s) ==
    IF s = <<"I", "n", "f", "i", "n", "i", "t", "y">> THEN Infinite(1)
    ELSE LET dot == DotAt(s, 1)
             ip  == IF dot = 0 THEN s ELSE SubSeq(s, 1, dot - 1)
             fp  == IF dot = 0 THEN <<>> ELSE SubSeq(s, dot + 1, Len(s))
         IN  IF AllDigits(ip) /\ AllDigits(fp) /\ Len(fp) <= 1 /\ Len(ip) + Len(fp) > 0
             THEN Finite(10 * ParseDigits(ip) + ParseDigits(fp))
             ELSE NaN

Negate(n) == IF n.k = "nan" THEN n ELSE [k |-> n.k, v |-> 0 - n.v]

\* Number(text): the empty text is 0, a leading sign is allowed, anything
\* that is not a number text (undefined included) is NaN
Number(s) ==
    IF s = <<>> THEN Finite(0)
    ELSE IF s[1] = "-" THEN Negate(UnsignedNumber(Tail(s)))
    ELSE IF s[1] = "+" THEN UnsignedNumber(Tail(s))
    ELSE UnsignedNumber(s)

isNaN(n) == n.k = "nan"

\* a map callback that copies the item's own aplyBgnDt as the record's date
ItemToRecord_RawDate(item, formattedDate, type) ==
    [id           |-> item.aplyBgnDt \o <<"-">> \o item.currSgn \o <<"-">> \o item.imexTp,
     countryCode  |-> item.cntySgn,
     currencyName |-> item.mtryUtNm,
     currencyCode |-> item.currSgn,
     rate         |-> Number(item.fxrt),
     date         |-> item.aplyBgnDt,
     type         |-> IF type = RateType_EXPORT THEN "export" ELSE "import"]

\* fetchWeek, the map callback: one upstream item to one record
ItemToRecord(item, formattedDate, type) ==
    [id           |-> item.aplyBgnDt \o <<"-">> \o item.currSgn \o <<"-">> \o item.imexTp,
     countryCode  |-> item.cntySgn,
     currencyName |-> item.mtryUtNm,
     currencyCode |-> item.currSgn,
     rate         |-> Number(item.fxrt),
     date         |-> formattedDate,
     type         |-> IF type = RateType_EXPORT THEN "export" ELSE "import"]

\* fetchWeek, the filter callback
KeepRow(row) == ~isNaN(row.rate)

\* fetchWeek: const cleaned = list.map(...).filter(...)
Cleaned(list, formattedDate, type) ==
    SelectSeq([i \in 1..Len(list) |-> ItemToRecord(list[i], formattedDate, type)], KeepRow)

\* fetchWeek: parsed?.response?.body?.items?.item || [] made a list;
\* items is [kind, v] with kind "undefined", "object" (v holds the one
\* object) or "array"
ItemList(items) == IF items.kind = "undefined" THEN <<>> ELSE items.v

\* fetchWeek after the XML was parsed: null when nothing is left
FetchWeekResult(items, date, type) ==
    LET rows == Cleaned(ItemList(items), formatDateForDisplay(date), type)
    IN  IF Len(rows) = 0 THEN Null ELSE Some(rows)

\* JSON.stringify writes null for a number that is not finite
JsonRate(r) == IF r.k \in {"inf", "nan"} THEN JsonNull ELSE r
JsonRecord(r) == [r EXCEPT !.rate = JsonRate(r.rate)]
JsonList(l) == [i \in 1..Len(l) |-> JsonRecord(l[i])]
JsonWeek(w) == [startDate |-> w.startDate, export |-> JsonList(w.export),
                import |-> JsonList(w.import)]

\* writeDataset: the weeks of JSON.stringify(payload) as JSON.parse reads
\* them back
JsonWeeks(ws) == [i \in 1..Len(ws) |-> JsonWeek(ws[i])]

\* loadExistingData: the parsed file, { weeks: [] } when the file is
\* absent or cannot be parsed
loadExistingData == IF file.state = "json" THEN file.weeks ELSE <<>>

\* buildDataset: existingWeeksMap.set(week.startDate, week) for every week
\* in order, a later week replacing an earlier one of the same startDate
BuildExistingWeeksMap(ws) ==
    [d \in {ws[i].startDate : i \in 1..Len(ws)} |->
        LET last == CHOOSE i \in 1..Len(ws) :
                        /\ ws[i].startDate = d
                        /\ \A j \in (i + 1)..Len(ws) : ws[j].startDate # d
        IN  ws[last]]

----------------------------------------------------------------------------
(* The upstream API as the generator runs see it. *)

\* first day (since the epoch) on which a run may start: Friday 2023-12-29
RunStartDay == 19720
\* number of consecutive weeks in which runs may start
MaxRunWeeks == 2

\* scheduled runs: Fridays 10:00 UTC (19:00 in UTC+9)
RunInstants == {(RunStartDay + 7 * w) * 1440 + 10 * 60 : w \in 0..(MaxRunWeeks - 1)}

\* the machine of the scheduled job keeps UTC
RunZones == {[base |-> 0, shiftAt |-> 0, shift |-> 0]}

KEY == <<"k", "e", "y">>
USD == <<"U", "S", "D">>
EUR == <<"E", "U", "R">>

\* one item of the XML answer to a request for (date, type)
UpstreamItem(date, type, currSgn, fxrt) ==
    [aplyBgnDt |-> date, currSgn |-> currSgn, imexTp |-> type,
     cntySgn |-> SubSeq(currSgn, 1, 2), mtryUtNm |-> currSgn, fxrt |-> fxrt]

\* the rate the upstream API publishes, as text; it is revised from one
\* week to the next, so that stored and fresh records can be told apart
PublishedRate == String(1300 + (now \div 1440 - RunStartDay) \div 7) \o <<".", "5">>

\* the item lists the upstream API may answer with: no item, one item
\* (parsed as an object), several items (parsed as an array) of which one
\* has a rate that is not a number
UpstreamItems(date, type) ==
    {[kind |-> "undefined", v |-> <<>>],
     [kind |-> "object",
      v |-> <<UpstreamItem(date, type, USD, PublishedRate)>>],
     [kind |-> "array",
      v |-> <<UpstreamItem(date, type, EUR, <<"a", "b", "c">>),
              UpstreamItem(date, type, USD, PublishedRate)>>]}

----------------------------------------------------------------------------
(* The latest-week table (part_000). *)

CNY == <<"C", "N", "Y">>
JPY == <<"J", "P", "Y">>
IMPORTANT_CODES == <<USD, EUR, CNY, JPY>>

LowerChars == <<"a", "b", "c", "d", "e", "f", "g", "h", "i", "j", "k", "l", "m",
                "n", "o", "p", "q", "r", "s", "t", "u", "v", "w", "x", "y", "z">>
UpperChars == <<"A", "B", "C", "D", "E", "F", "G", "H", "I", "J", "K", "L", "M",
                "N", "O", "P", "Q", "R", "S", "T", "U", "V", "W", "X", "Y", "Z">>

\* String.prototype.toUpperCase on the letters a-z
toUpperCase(s) ==
    [i \in 1..Len(s) |->
        IF \E j \in 1..26 : LowerChars[j] = s[i]
        THEN UpperChars[CHOOSE j \in 1..26 : LowerChars[j] = s[i]]
        ELSE s[i]]

\* the shortlist records in the order of the list, not of the shortlist
pickImportantRates_ListOrder(list) ==
    SelectSeq(list, LAMBDA r :
        /\ \E n \in 1..Len(IMPORTANT_CODES) : toUpperCase(r.currencyCode) = IMPORTANT_CODES[n]
        /\ \A i \in 1..Len(list) :
              (list[i] # r /\ toUpperCase(list[i].currencyCode) = toUpperCase(r.currencyCode))
                => \E j \in 1..Len(list) : list[j] = r /\ j < i)

\* pickImportantRates: for every shortlist code, in order, the first record
\* of the list with that currency code, when there is one
pickImportantRates(list) ==
    LET Hits(code) == {i \in 1..Len(list) : toUpperCase(list[i].currencyCode) = code}
        First(code) == CHOOSE i \in Hits(code) : \A j \in Hits(code) : i <= j
        found == SelectSeq(IMPORTANT_CODES, LAMBDA code : Hits(code) # {})
    IN  [n \in 1..Len(found) |-> list[First(found[n])]]

\* writeTableHtml: what the page shows of payload.weeks[0]
LatestTable(ws) ==
    [startDate |-> ws[1].startDate,
     export |-> pickImportantRates(ws[1].export),
     import |-> pickImportantRates(ws[1].import)]

----------------------------------------------------------------------------
(* The generator process (part_000): main, buildDataset, fetchWeek. *)

NoCalls == [k \in {} |-> Null]

RunIdle ==
    /\ SERVICE_KEY = <<>>
    /\ pc = "idle"
    /\ sundays = <<>>
    /\ existingWeeksMap = NoCalls
    /\ weeks = <<>>
    /\ idx = 0
    /\ fetch = NoCalls
    /\ fetched = <<>>
    /\ requests = NoCalls

SundaysIdle ==
    /\ count = 0
    /\ pcS = "idle"
    /\ revision = "none"
    /\ dates = <<>>

CleanIdle ==
    /\ pcC = "idle"
    /\ xmlItems = [kind |-> "undefined", v |-> <<>>]
    /\ xmlType = RateType_EXPORT
    /\ cleaned = Null

TableIdle ==
    /\ pcT = "idle"
    /\ payload = <<>>
    /\ html = <<>>

EscapeIdle ==
    /\ pcE = "idle"
    /\ value = [t |-> "undefined", s |-> <<>>, n |-> NaN]
    /\ escaped = <<>>

LoadIdle ==
    /\ pcL = "idle"
    /\ persisted = <<>>
    /\ dataset = <<>>

AppIdle ==
    /\ mounted = "no"
    /\ activeType = RateType_IMPORT
    /\ hasNext = FALSE
    /\ loads = {}
    /\ loadedType = <<>>
    /\ loadSettled = FALSE
    /\ poll = <<>>
    /\ pollingRef = 0

RestIdle ==
    /\ TableIdle
    /\ EscapeIdle
    /\ LoadIdle
    /\ AppIdle

\* fetchWeek that goes to the network without looking at SERVICE_KEY
IssuedCalls_NoKeyCheck(date, key) ==
    [k \in {<<date, t>> : t \in RateTypes} |-> [st |-> "awaitFetch", result |-> Null]]

\* the calls Promise.all([fetchWeek(date, EXPORT), fetchWeek(date, IMPORT)])
\* makes, each run up to its first await: without a credential fetchWeek
\* returns null at once, otherwise its HTTP request is out
IssuedCalls(date, key) ==
    [k \in {<<date, t>> : t \in RateTypes} |->
        IF key = <<>> THEN [st |-> "done", result |-> Null]
        ELSE [st |-> "awaitFetch", result |-> Null]]

\* the request log after those calls: one more request for every call
\* that awaits fetch(url)
RequestsAfter(reqs, calls) ==
    [k \in DOMAIN reqs |->
        IF k \in DOMAIN calls /\ calls[k].st = "awaitFetch" THEN reqs[k] + 1 ELSE reqs[k]]

\* an HTTP request of call k is out: fetch() or response.text() is awaited
InFlight(k) == fetch[k].st \in {"awaitFetch", "awaitText"}

\* a wait that ends with the first of the two calls (Promise.race)
PromiseAllDone_Any(date) == \E t \in RateTypes : fetch[<<date, t>>].st = "done"

\* Promise.all over the two calls of an anchor has resolved
PromiseAllDone(date) == \A t \in RateTypes : fetch[<<date, t>>].st = "done"

\* a week put together from the direction that was fetched and the stored
\* week's other direction
WeekFor_Mixed(formattedDate, exportRates, importRates) ==
    IF ~exportRates.isNull /\ ~importRates.isNull
    THEN <<[startDate |-> formattedDate, export |-> exportRates.list,
            import |-> importRates.list]>>
    ELSE IF formattedDate \in DOMAIN existingWeeksMap
         THEN <<[startDate |-> formattedDate,
                 export |-> IF exportRates.isNull
                            THEN existingWeeksMap[formattedDate].export
                            ELSE exportRates.list,
                 import |-> IF importRates.isNull
                            THEN existingWeeksMap[formattedDate].import
                            ELSE importRates.list]>>
         ELSE <<>>

\* a week pushed for every anchor, with empty lists when there is no data
WeekFor_Padded(formattedDate, exportRates, importRates) ==
    IF ~exportRates.isNull /\ ~importRates.isNull
    THEN <<[startDate |-> formattedDate, export |-> exportRates.list,
            import |-> importRates.list]>>
    ELSE IF formattedDate \in DOMAIN existingWeeksMap
         THEN <<existingWeeksMap[formattedDate]>>
         ELSE <<[startDate |-> formattedDate, export |-> <<>>, import |-> <<>>]>>

\* no look at the stored snapshot: a failed anchor is always skipped
WeekFor_NoReuse(formattedDate, exportRates, importRates) ==
    IF ~exportRates.isNull /\ ~importRates.isNull
    THEN <<[startDate |-> formattedDate, export |-> exportRates.list,
            import |-> importRates.list]>>
    ELSE <<>>

\* the list that was fetched is kept beside an empty one when the anchor has
\* no stored week
WeekFor_Partial(formattedDate, exportRates, importRates) ==
    IF ~exportRates.isNull /\ ~importRates.isNull
    THEN <<[startDate |-> formattedDate, export |-> exportRates.list,
            import |-> importRates.list]>>
    ELSE IF formattedDate \in DOMAIN existingWeeksMap
         THEN <<existingWeeksMap[formattedDate]>>
         ELSE IF exportRates.isNull /\ importRates.isNull
              THEN <<>>
              ELSE <<[startDate |-> formattedDate,
                      export |-> IF exportRates.isNull THEN <<>> ELSE exportRates.list,
                      import |-> IF importRates.isNull THEN <<>> ELSE importRates.list]>>

\* weeks.unshift in place of weeks.push
PushWeek_Front(ws, w) == w \o ws

\* buildDataset: weeks.push(week), w being the week in a list or no week
PushWeek(ws, w) == ws \o w

\* buildDataset, the body of the for loop after the await: the week pushed
\* for the anchor, none when there is neither fresh nor stored data
WeekFor(formattedDate, exportRates, importRates) ==
    IF ~exportRates.isNull /\ ~importRates.isNull
    THEN <<[startDate |-> formattedDate, export |-> exportRates.list,
            import |-> importRates.list]>>
    ELSE IF formattedDate \in DOMAIN existingWeeksMap
         THEN <<existingWeeksMap[formattedDate]>>
         ELSE <<>>

\* time passes between two runs of the scheduled job
Tick ==
    /\ pc = "idle"
    /\ \E t \in RunInstants : t > now /\ now' = t
    /\ UNCHANGED <<tz, runVars, sundayVars, cleanVars, restVars>>

\* main starts: SERVICE_KEY is read, buildDataset computes the anchors,
\* loads the snapshot and runs into the first Promise.all
StartRun ==
    /\ pc = "idle"
    /\ \E key \in {<<>>, KEY} :
        LET anchors == getRecentSundays(WEEK_COUNT)
        IN  /\ SERVICE_KEY' = key
            /\ sundays' = anchors
            /\ existingWeeksMap' = BuildExistingWeeksMap(loadExistingData)
            /\ weeks' = <<>>
            /\ fetched' = <<>>
            /\ idx' = 1
            /\ IF Len(anchors) = 0
               THEN /\ pc' = "built"
                    /\ fetch' = NoCalls
                    /\ requests' = NoCalls
               ELSE /\ pc' = "await"
                    /\ fetch' = IssuedCalls(anchors[1], key)
                    /\ requests' = RequestsAfter(
                           [k \in {<<anchors[i], ty>> : i \in 1..Len(anchors), ty \in RateTypes} |-> 0],
                           IssuedCalls(anchors[1], key))
    /\ exitCode' = -1
    /\ table' = <<>>
    /\ UNCHANGED <<now, tz, file, sundayVars, cleanVars, restVars>>

\* await fetch(url) rejects (network failure): caught, fetchWeek returns null
FetchRejects ==
    /\ \E k \in DOMAIN fetch :
        /\ fetch[k].st = "awaitFetch"
        /\ fetch' = [fetch EXCEPT ![k] = [st |-> "done", result |-> Null]]
    /\ UNCHANGED <<now, tz, SERVICE_KEY, file, pc, sundays, existingWeeksMap, weeks,
                   idx, fetched, requests, table, exitCode, sundayVars, cleanVars, restVars>>

\* await fetch(url) resolves: response.ok goes on to response.text(),
\* any other status throws and fetchWeek returns null
FetchResolves ==
    /\ \E k \in DOMAIN fetch, ok \in BOOLEAN :
        /\ fetch[k].st = "awaitFetch"
        /\ fetch' = [fetch EXCEPT ![k] =
                        IF ok THEN [st |-> "awaitText", result |-> Null]
                        ELSE [st |-> "done", result |-> Null]]
    /\ UNCHANGED <<now, tz, SERVICE_KEY, file, pc, sundays, existingWeeksMap, weeks,
                   idx, fetched, requests, table, exitCode, sundayVars, cleanVars, restVars>>

\* await response.text() rejects or parser.parse throws: fetchWeek returns null
TextFails ==
    /\ \E k \in DOMAIN fetch :
        /\ fetch[k].st = "awaitText"
        /\ fetch' = [fetch EXCEPT ![k] = [st |-> "done", result |-> Null]]
    /\ UNCHANGED <<now, tz, SERVICE_KEY, file, pc, sundays, existingWeeksMap, weeks,
                   idx, fetched, requests, table, exitCode, sundayVars, cleanVars, restVars>>

\* await response.text() resolves and the XML parses: the items are mapped
\* and filtered
TextResolves ==
    /\ \E k \in DOMAIN fetch :
        /\ fetch[k].st = "awaitText"
        /\ \E items \in UpstreamItems(k[1], k[2]) :
            fetch' = [fetch EXCEPT ![k] =
                         [st |-> "done", result |-> FetchWeekResult(items, k[1], k[2])]]
    /\ UNCHANGED <<now, tz, SERVICE_KEY, file, pc, sundays, existingWeeksMap, weeks,
                   idx, fetched, requests, table, exitCode, sundayVars, cleanVars, restVars>>

\* buildDataset resumes after Promise.all: the week of the anchor is pushed,
\* reused or skipped, then the loop runs into the next Promise.all or
\* buildDataset returns
Continue ==
    /\ pc = "await"
    /\ idx <= Len(sundays)
    /\ PromiseAllDone(sundays[idx])
    /\ LET date == sundays[idx]
           exportRates == fetch[<<date, RateType_EXPORT>>].result
           importRates == fetch[<<date, RateType_IMPORT>>].result
           rest == [k \in {c \in DOMAIN fetch : fetch[c].st # "done"} |-> fetch[k]]
       IN  /\ weeks' = PushWeek(weeks, WeekFor(formatDateForDisplay(date), exportRates, importRates))
           /\ fetched' = Append(fetched, [date |-> date,
                                          both |-> ~exportRates.isNull /\ ~importRates.isNull,
                                          any |-> ~exportRates.isNull \/ ~importRates.isNull])
           /\ idx' = idx + 1
           /\ IF idx < Len(sundays)
              THEN /\ pc' = "await"
                   /\ fetch' = [k \in DOMAIN rest \cup DOMAIN IssuedCalls(sundays[idx + 1], SERVICE_KEY) |->
                                   IF k \in DOMAIN rest THEN rest[k]
                                   ELSE IssuedCalls(sundays[idx + 1], SERVICE_KEY)[k]]
                   /\ requests' = RequestsAfter(requests, IssuedCalls(sundays[idx + 1], SERVICE_KEY))
              ELSE /\ pc' = "built"
                   /\ fetch' = rest
                   /\ requests' = requests
    /\ UNCHANGED <<now, tz, SERVICE_KEY, file, sundays, existingWeeksMap, table,
                   exitCode, sundayVars, cleanVars, restVars>>

\* the process is gone: its memory with it
ProcessExit ==
    /\ SERVICE_KEY' = <<>>
    /\ pc' = "idle"
    /\ sundays' = <<>>
    /\ existingWeeksMap' = NoCalls
    /\ weeks' = <<>>
    /\ idx' = 0
    /\ fetch' = NoCalls
    /\ fetched' = <<>>
    /\ requests' = NoCalls

\* main after buildDataset: writeDataset overwrites the snapshot with the
\* assembled dataset
WriteDataset ==
    /\ pc = "built"
    /\ file' = [state |-> "json", weeks |-> JsonWeeks(weeks)]
    /\ pc' = "written"
    /\ UNCHANGED <<now, tz, SERVICE_KEY, sundays, existingWeeksMap, weeks, idx, fetch,
                   fetched, requests, table, exitCode, sundayVars, cleanVars, restVars>>

\* a main that catches the error of writeDataset and goes on to writeTableHtml
WriteDatasetFails_Swallowed ==
    /\ pc = "built"
    /\ file' \in {file, [state |-> "corrupt", weeks |-> <<>>]}
    /\ pc' = "written"
    /\ UNCHANGED <<now, tz, SERVICE_KEY, sundays, existingWeeksMap, weeks, idx, fetch,
                   fetched, requests, table, exitCode, sundayVars, cleanVars, restVars>>

\* writeDataset throws: main().catch exits with status 1; the file is
\* untouched or left cut off, and writeTableHtml is not reached
WriteDatasetFails ==
    /\ pc = "built"
    /\ file' \in {file, [state |-> "corrupt", weeks |-> <<>>]}
    /\ exitCode' = 1
    /\ ProcessExit
    /\ UNCHANGED <<now, tz, table, sundayVars, cleanVars, restVars>>

\* main after writeDataset: writeTableHtml renders the latest week, or
\* skips the write when there is no week; the process ends with status 0
WriteTableHtml ==
    /\ pc = "written"
    /\ table' = IF Len(weeks) = 0 THEN <<>> ELSE LatestTable(weeks)
    /\ exitCode' = 0
    /\ ProcessExit
    /\ UNCHANGED <<now, tz, file, sundayVars, cleanVars, restVars>>

\* writeTableHtml throws: main().catch exits with status 1
WriteTableHtmlFails ==
    /\ pc = "written"
    /\ Len(weeks) > 0
    /\ exitCode' = 1
    /\ ProcessExit
    /\ UNCHANGED <<now, tz, file, table, sundayVars, cleanVars, restVars>>

Init ==
    /\ now \in RunInstants
    /\ \A t \in RunInstants : now <= t
    /\ tz \in RunZones
    /\ file = [state |-> "absent", weeks |-> <<>>]
    /\ table = <<>>
    /\ exitCode = -1
    /\ RunIdle
    /\ SundaysIdle
    /\ CleanIdle
    /\ RestIdle

Next ==
    \/ Tick
    \/ StartRun
    \/ FetchRejects
    \/ FetchResolves
    \/ TextFails
    \/ TextResolves
    \/ Continue
    \/ WriteDataset
    \/ WriteDatasetFails
    \/ WriteTableHtml
    \/ WriteTableHtmlFails

Spec == Init /\ [][Next]_vars

----------------------------------------------------------------------------
(* The generator with mock data (part_001, part_002). *)

\* Math.sin of the whole numbers 0..99, in ten-thousandths (rounded)
MathSin ==
    <<0, 8415, 9093, 1411, -7568, -9589, -2794, 6570, 9894, 4121,
     -5440, -10000, -5366, 4202, 9906, 6503, -2879, -9614, -7510, 1499,
     9129, 8367, -89, -8462, -9056, -1324, 7626, 9564, 2709, -6636,
     -9880, -4040, 5514, 9999, 5291, -4282, -9918, -6435, 2964, 9638,
     7451, -1586, -9165, -8318, 177, 8509, 9018, 1236, -7683, -9538,
     -2624, 6702, 9866, 3959, -5588, -9998, -5216, 4362, 9929, 6367,
     -3048, -9661, -7392, 1674, 9200, 8268, -266, -8555, -8979, -1148,
     7739, 9511, 2538, -6768, -9851, -3878, 5661, 9995, 5140, -4441,
     -9939, -6299, 3132, 9684, 7332, -1761, -9235, -8218, 354, 8601,
     8940, 1060, -7795, -9483, -2453, 6833, 9836, 3796, -5734, -9992>>

\* generateMockData: code, country code, name and base rate of the eight
\* currencies, in the order of the returned array
MockCurrencies ==
    <<[code |-> <<"U", "S", "D">>, country |-> <<"U", "S">>,
       name |-> <<"U", "S", " ", "D", "o", "l", "l", "a", "r">>, base |-> 1350],
      [code |-> <<"J", "P", "Y">>, country |-> <<"J", "P">>,
       name |-> <<"J", "a", "p", "a", "n", "e", "s", "e", " ", "Y", "e", "n">>, base |-> 900],
      [code |-> <<"E", "U", "R">>, country |-> <<"E", "U">>,
       name |-> <<"E", "u", "r", "o">>, base |-> 1450],
      [code |-> <<"C", "N", "Y">>, country |-> <<"C", "N">>,
       name |-> <<"C", "h", "i", "n", "e", "s", "e", " ", "Y", "u", "a", "n">>, base |-> 190],
      [code |-> <<"G", "B", "P">>, country |-> <<"G", "B">>,
       name |-> <<"B", "r", "i", "t", "i", "s", "h", " ", "P", "o", "u", "n", "d">>, base |-> 1700],
      [code |-> <<"H", "K", "D">>, country |-> <<"H", "K">>,
       name |-> <<"H", "o", "n", "g", " ", "K", "o", "n", "g", " ", "D", "o", "l", "l", "a", "r">>, base |-> 172],
      [code |-> <<"C", "A", "D">>, country |-> <<"C", "A">>,
       name |-> <<"C", "a", "n", "a", "d", "i", "a", "n", " ", "D", "o", "l", "l", "a", "r">>, base |-> 980],
      [code |-> <<"A", "U", "D">>, country |-> <<"A", "U">>,
       name |-> <<"A", "u", "s", "t", "r", "a", "l", "i", "a", "n", " ", "D", "o", "l", "l", "a", "r">>, base |-> 880]>>

\* generateMockData: const seed = parseInt(date, 10) % 100
MockSeed(date) == ParseDigits(date) % 100

\* generateMockData: noise(base) = base + Math.sin(seed) * base * 0.05,
\* kept in tenths
MockNoise(base, seed) == Finite(base * 10 + (base * MathSin[seed + 1] * 5) \div 10000)

\* mock records that all say 'export'
generateMockData_OneType(date, type) ==
    [n \in 1..Len(MockCurrencies) |->
        [id           |-> date \o <<"-">> \o MockCurrencies[n].code,
         countryCode  |-> MockCurrencies[n].country,
         currencyName |-> MockCurrencies[n].name,
         currencyCode |-> MockCurrencies[n].code,
         rate         |-> MockNoise(MockCurrencies[n].base, MockSeed(date)),
         date         |-> formatDateForDisplay(date),
         type         |-> "export"]]

\* generateMockData(date, type)
generateMockData(date, type) ==
    [n \in 1..Len(MockCurrencies) |->
        [id           |-> date \o <<"-">> \o MockCurrencies[n].code,
         countryCode  |-> MockCurrencies[n].country,
         currencyName |-> MockCurrencies[n].name,
         currencyCode |-> MockCurrencies[n].code,
         rate         |-> MockNoise(MockCurrencies[n].base, MockSeed(date)),
         date         |-> formatDateForDisplay(date),
         type         |-> IF type = RateType_EXPORT THEN "export" ELSE "import"]]

\* fetchWeek of part_001 after the XML was parsed: the cleaned list, mock
\* records when nothing is left
FetchWeekResult_001(items, date, type) ==
    LET rows == Cleaned(ItemList(items), formatDateForDisplay(date), type)
    IN  IF Len(rows) = 0 THEN generateMockData(date, type) ELSE rows

\* everything fetchWeek(date, type) of part_001 may return: mock records
\* without a credential or when the request fails, otherwise what the
\* answer gives
FetchWeekOutcomes_001(date, type, key) ==
    IF key = <<>> THEN {generateMockData(date, type)}
    ELSE {generateMockData(date, type)}
           \cup {FetchWeekResult_001(items, date, type) : items \in UpstreamItems(date, type)}

\* a process of part_001 has started: SERVICE_KEY is read and buildDataset
\* has computed its anchors
InitMock ==
    /\ now \in RunInstants
    /\ tz \in RunZones
    /\ SERVICE_KEY \in {<<>>, KEY}
    /\ pc = "await"
    /\ sundays = getRecentSundays_001(WEEK_COUNT)
    /\ existingWeeksMap = NoCalls
    /\ weeks = <<>>
    /\ idx = 1
    /\ fetch = NoCalls
    /\ fetched = <<>>
    /\ requests = NoCalls
    /\ file = [state |-> "absent", weeks |-> <<>>]
    /\ table = <<>>
    /\ exitCode = -1
    /\ count = 0
    /\ pcS = "idle"
    /\ revision = "part_001"
    /\ dates = <<>>
    /\ CleanIdle
    /\ RestIdle

\* buildDataset of part_001, one turn of the for loop: both fetchWeek calls
\* have returned and the week is pushed
Continue_001 ==
    /\ pc = "await"
    /\ revision = "part_001"
    /\ idx <= Len(sundays)
    /\ \E exportRates \in FetchWeekOutcomes_001(sundays[idx], RateType_EXPORT, SERVICE_KEY),
          importRates \in FetchWeekOutcomes_001(sundays[idx], RateType_IMPORT, SERVICE_KEY) :
        weeks' = Append(weeks, [startDate |-> formatDateForDisplay(sundays[idx]),
                                export |-> exportRates, import |-> importRates])
    /\ fetched' = Append(fetched, [date |-> sundays[idx], both |-> TRUE, any |-> TRUE])
    /\ idx' = idx + 1
    /\ pc' = IF idx < Len(sundays) THEN "await" ELSE "built"
    /\ UNCHANGED <<now, tz, SERVICE_KEY, file, sundays, existingWeeksMap, fetch, requests,
                   table, exitCode, sundayVars, cleanVars, restVars>>

NextMock ==
    \/ Continue_001
    \/ WriteDataset
    \/ WriteDatasetFails
    \/ WriteTableHtml
    \/ WriteTableHtmlFails

SpecMock == InitMock /\ [][NextMock]_vars

\* runs of either revision of the generator
NextGenerators ==
    \/ revision = "none" /\ Next
    \/ revision = "part_001" /\ NextMock

SpecGenerators == (Init \/ InitMock) /\ [][NextGenerators]_vars

----------------------------------------------------------------------------
(* SpecTable: the latest-week table rendered from every dataset of the     *)
(* bounded input set, by the generator (writeTableHtml) and by             *)
(* scripts/buildTableFromSnapshot.js (main).                               *)

\* largest number of records in a list of the latest week
MaxTableRows == 2

GBP == <<"G", "B", "P">>

\* the start dates of the latest and of the older week
LatestStart == <<"2", "0", "2", "4", "-", "0", "1", "-", "0", "7">>
OlderStart == <<"2", "0", "2", "3", "-", "1", "2", "-", "3", "1">>

\* a record of a stored week; its rate tells its place in the list
TableRecord(code, place, type, startDate) ==
    [id           |-> startDate \o <<"-">> \o code \o <<"-">> \o <<type>>,
     countryCode  |-> SubSeq(code, 1, 2),
     currencyName |-> code,
     currencyCode |-> code,
     rate         |-> Finite(place),
     date         |-> startDate,
     type         |-> type]

RECURSIVE TableLists(_, _, _)
TableLists(codes, type, n) ==
    IF n = 0 THEN {<<>>}
    ELSE LET shorter == TableLists(codes, type, n - 1)
         IN  shorter \cup
             {Append(l, TableRecord(c, n, type, LatestStart)) :
                 l \in {x \in shorter : Len(x) = n - 1}, c \in codes}

\* export lists hold shortlist codes (one of them in lower case) and a code
\* outside the shortlist, import lists two shortlist codes
ExportCodes == {USD, <<"u", "s", "d">>, CNY, JPY, GBP}
ImportCodes == {CNY, JPY}

OlderWeek ==
    [startDate |-> OlderStart,
     export |-> <<TableRecord(EUR, 1, "export", OlderStart)>>,
     import |-> <<TableRecord(EUR, 1, "import", OlderStart)>>]

\* the datasets a table is rendered from: no week, the latest week alone,
\* the latest week followed by an older one
TablePayloads ==
    {<<>>}
      \cup {<<[startDate |-> LatestStart, export |-> e, import |-> i]>> :
              e \in TableLists(ExportCodes, "export", MaxTableRows),
              i \in TableLists(ImportCodes, "import", MaxTableRows)}
      \cup {<<[startDate |-> LatestStart, export |-> e, import |-> i], OlderWeek>> :
              e \in TableLists(ExportCodes, "export", MaxTableRows),
              i \in TableLists(ImportCodes, "import", MaxTableRows)}

InitTable ==
    /\ pcT = "input"
    /\ payload \in TablePayloads
    /\ html = <<>>
    /\ now \in RunInstants
    /\ \A t \in RunInstants : now <= t
    /\ tz \in RunZones
    /\ file = [state |-> "absent", weeks |-> <<>>]
    /\ table = <<>>
    /\ exitCode = -1
    /\ RunIdle
    /\ SundaysIdle
    /\ CleanIdle
    /\ EscapeIdle
    /\ LoadIdle
    /\ AppIdle

\* writeTableHtml(payload) of the generator: nothing is written when there
\* is no week
CallWriteTableHtml ==
    /\ pcT = "input"
    /\ IF Len(payload) = 0
       THEN html' = <<>> /\ pcT' = "skipped"
       ELSE html' = LatestTable(payload) /\ pcT' = "memory"
    /\ UNCHANGED <<now, tz, payload, runVars, sundayVars, cleanVars, escapeVars, loadVars, appVars>>

\* main of buildTableFromSnapshot.js on the snapshot holding payload: it
\* throws when there is no week
BuildTableFromSnapshot ==
    /\ pcT = "input"
    /\ IF Len(JsonWeeks(payload)) = 0
       THEN html' = <<>> /\ pcT' = "failed"
       ELSE html' = LatestTable(JsonWeeks(payload)) /\ pcT' = "snapshot"
    /\ UNCHANGED <<now, tz, payload, runVars, sundayVars, cleanVars, escapeVars, loadVars, appVars>>

NextTable == CallWriteTableHtml \/ BuildTableFromSnapshot

SpecTable == InitTable /\ [][NextTable]_vars

----------------------------------------------------------------------------
(* SpecEscape: escapeHtml applied to every value of the bounded input set. *)

\* longest text given to escapeHtml
MaxEscapeLen == 3

\* the characters of the input texts: the five escapeHtml replaces, a
\* letter and the semicolon that ends an entity
EscapeChars == {"&", "<", ">", "\"", "'", "a", ";"}

RECURSIVE EscapeTexts(_)
EscapeTexts(n) ==
    IF n = 0 THEN {<<>>}
    ELSE LET shorter == EscapeTexts(n - 1)
         IN  shorter \cup
             {Append(l, c) : l \in {x \in shorter : Len(x) = n - 1}, c \in EscapeChars}

\* JavaScript values as escapeHtml gets them: a string, a number, null
\* (a rate JSON could not hold), undefined (an absent property)
StringValue(s) == [t |-> "string", s |-> s, n |-> NaN]
NumberValue(n) == [t |-> "number", s |-> <<>>, n |-> n]
NullValue == [t |-> "null", s |-> <<>>, n |-> NaN]
UndefinedValue == [t |-> "undefined", s |-> <<>>, n |-> NaN]

\* the values interpolated into the page: names, codes, dates and titles
\* (strings), rates (numbers: 0, 1300.5, 7; null), absent properties
EscapeValues ==
    {StringValue(s) : s \in EscapeTexts(MaxEscapeLen)}
      \cup {NumberValue(Finite(0)), NumberValue(Finite(13005)), NumberValue(Finite(70)),
            NullValue, UndefinedValue}

\* value || '' takes the right side for these
Falsy(v) ==
    \/ v.t \in {"null", "undefined"}
    \/ v.t = "string" /\ v.s = <<>>
    \/ v.t = "number" /\ (v.n = Finite(0) \/ isNaN(v.n))

\* Number.prototype.toString of a number counted in tenths
NumberToString(n) ==
    IF n.k = "nan" THEN <<"N", "a", "N">>
    ELSE IF n.k = "inf"
         THEN (IF n.v < 0 THEN <<"-">> ELSE <<>>) \o <<"I", "n", "f", "i", "n", "i", "t", "y">>
         ELSE LET abs == IF n.v < 0 THEN 0 - n.v ELSE n.v
              IN  (IF n.v < 0 THEN <<"-">> ELSE <<>>)
                    \o String(abs \div 10)
                    \o (IF abs % 10 = 0 THEN <<>> ELSE <<".">> \o String(abs % 10))

\* String(v)
StringOf(v) ==
    IF v.t = "string" THEN v.s
    ELSE IF v.t = "number" THEN NumberToString(v.n)
    ELSE IF v.t = "null" THEN <<"n", "u", "l", "l">>
    ELSE Undefined

\* String.prototype.replace(/c/g, entity)
RECURSIVE replaceAll(_, _, _)
replaceAll(s, c, entity) ==
    IF s = <<>> THEN <<>>
    ELSE (IF Head(s) = c THEN entity ELSE <<Head(s)>>) \o replaceAll(Tail(s), c, entity)

AMP == <<"&", "a", "m", "p", ";">>
LT == <<"&", "l", "t", ";">>
GT == <<"&", "g", "t", ";">>
QUOT == <<"&", "q", "u", "o", "t", ";">>
APOS == <<"&", "#", "3", "9", ";">>

\* escapeHtml: String(value || '') and the five replacements in order
escapeHtml(v) ==
    LET text == IF Falsy(v) THEN <<>> ELSE StringOf(v)
    IN  replaceAll(replaceAll(replaceAll(replaceAll(replaceAll(
            text, "&", AMP), "<", LT), ">", GT), "\"", QUOT), "'", APOS)

InitEscape ==
    /\ pcE = "input"
    /\ value \in EscapeValues
    /\ escaped = <<>>
    /\ now \in RunInstants
    /\ \A t \in RunInstants : now <= t
    /\ tz \in RunZones
    /\ file = [state |-> "absent", weeks |-> <<>>]
    /\ table = <<>>
    /\ exitCode = -1
    /\ RunIdle
    /\ SundaysIdle
    /\ CleanIdle
    /\ TableIdle
    /\ LoadIdle
    /\ AppIdle

CallEscapeHtml ==
    /\ pcE = "input"
    /\ escaped' = escapeHtml(value)
    /\ pcE' = "done"
    /\ UNCHANGED <<now, tz, value, runVars, sundayVars, cleanVars, tableVars, loadVars, appVars>>

NextEscape == CallEscapeHtml

SpecEscape == InitEscape /\ [][NextEscape]_vars

----------------------------------------------------------------------------
(* SpecRender: a dataset is written by writeDataset and its latest-week    *)
(* page rendered twice: by writeTableHtml from the dataset in memory and   *)
(* by main of scripts/buildTableFromSnapshot.js from the file.             *)

\* largest number of records in the export list of the rendered week
MaxRenderRows == 2

\* the rates of the records in memory: 1300.5, 0, Infinity (fetchWeek keeps
\* every rate that is not NaN) and null (a week reused from the snapshot)
RenderRates == {Finite(13005), Finite(0), Infinite(1), JsonNull}

RECURSIVE RenderLists(_, _, _)
RenderLists(codes, type, n) ==
    IF n = 0 THEN {<<>>}
    ELSE LET shorter == RenderLists(codes, type, n - 1)
         IN  shorter \cup
             {Append(l, [TableRecord(c, n, type, LatestStart) EXCEPT !.rate = r]) :
                 l \in {x \in shorter : Len(x) = n - 1}, c \in codes, r \in RenderRates}

\* the datasets rendered: no week, or one week
RenderPayloads ==
    {<<>>}
      \cup {<<[startDate |-> LatestStart, export |-> e, import |-> i]>> :
              e \in RenderLists({USD, EUR}, "export", MaxRenderRows),
              i \in RenderLists({CNY}, "import", 1)}

\* buildRatesTable: the cells of the rows, one row per record picked, each
\* cell through escapeHtml
buildRatesTable(rates) ==
    LET TextValue(t) == IF t = Undefined THEN UndefinedValue ELSE StringValue(t)
        RateValue(r) == IF r = JsonNull THEN NullValue ELSE NumberValue(r)
        rows == pickImportantRates(rates)
    IN  [n \in 1..Len(rows) |->
            <<escapeHtml(TextValue(rows[n].currencyName)),
              escapeHtml(TextValue(rows[n].currencyCode)),
              escapeHtml(RateValue(rows[n].rate))>>]

\* the page both renderers build from weeks[0]: the start date in the
\* header and the two sections
TableHtml(ws) ==
    [startDate |-> escapeHtml(StringValue(ws[1].startDate)),
     exportSection |-> buildRatesTable(ws[1].export),
     importSection |-> buildRatesTable(ws[1].import)]

InitRender ==
    /\ pcT = "input"
    /\ payload \in RenderPayloads
    /\ html = <<>>
    /\ now \in RunInstants
    /\ \A t \in RunInstants : now <= t
    /\ tz \in RunZones
    /\ file = [state |-> "absent", weeks |-> <<>>]
    /\ table = <<>>
    /\ exitCode = -1
    /\ RunIdle
    /\ SundaysIdle
    /\ CleanIdle
    /\ EscapeIdle
    /\ LoadIdle
    /\ AppIdle

\* main of the generator: writeDataset(dataset)
RenderWriteDataset ==
    /\ pcT = "input"
    /\ file' = [state |-> "json", weeks |-> JsonWeeks(payload)]
    /\ pcT' = "written"
    /\ UNCHANGED <<now, tz, payload, html, SERVICE_KEY, pc, sundays, existingWeeksMap,
                   weeks, idx, fetch, fetched, requests, table, exitCode,
                   sundayVars, cleanVars, escapeVars, loadVars, appVars>>

\* main of the generator: writeTableHtml(dataset), which writes nothing
\* when there is no week
RenderWriteTableHtml ==
    /\ pcT = "written"
    /\ IF Len(payload) = 0
       THEN html' = <<>> /\ pcT' = "skipped"
       ELSE html' = TableHtml(payload) /\ pcT' = "memory"
    /\ UNCHANGED <<now, tz, payload, runVars, sundayVars, cleanVars, escapeVars, loadVars, appVars>>

\* main of buildTableFromSnapshot.js, run on the file the generator wrote:
\* it throws when the file has no week
RenderFromSnapshot ==
    /\ pcT \in {"memory", "skipped"}
    /\ file.state = "json"
    /\ IF Len(file.weeks) = 0
       THEN html' = html /\ pcT' = "failed"
       ELSE html' = TableHtml(file.weeks) /\ pcT' = "snapshot"
    /\ UNCHANGED <<now, tz, payload, runVars, sundayVars, cleanVars, escapeVars, loadVars, appVars>>

NextRender == RenderWriteDataset \/ RenderWriteTableHtml \/ RenderFromSnapshot

SpecRender == InitRender /\ [][NextRender]_vars

----------------------------------------------------------------------------
(* SpecLoad: the frontend's load of /exchange-rates.json                   *)
(* (src/services/customsApi.ts) for every stored order of the weeks.       *)

\* largest number of weeks in the stored dataset
MaxLoadWeeks == 3

\* the Sundays 2023-12-24, 2023-12-31, 2024-01-07 and 2024-01-14 as day
\* numbers
LoadDays == {19715, 19722, 19729, 19736}

\* a || b on texts: undefined and the empty text are falsy
Or(a, b) == IF a # Undefined /\ a # <<>> THEN a ELSE b

\* an entry of a stored week as JSON.parse gives it: a record the generator
\* wrote, with its id or (withId false) without one; it has none of the
\* upstream field names
StoredEntry(startDate, code, type, withId) ==
    [id           |-> IF withId THEN startDate \o <<"-">> \o code \o <<"-">> \o <<type>>
                      ELSE Undefined,
     countryCode  |-> SubSeq(code, 1, 2),
     currencyName |-> code,
     currencyCode |-> code,
     rate         |-> Finite(13005),
     date         |-> startDate,
     type         |-> type,
     cntySgn      |-> Undefined,
     mtryUtNm     |-> Undefined,
     currSgn      |-> Undefined]

StoredWeek(day, withId) ==
    LET startDate == formatDateForDisplay(FormatCompact(day))
    IN  [startDate |-> startDate,
         date      |-> Undefined,
         import    |-> <<StoredEntry(startDate, USD, "import", withId)>>,
         export    |-> <<StoredEntry(startDate, USD, "export", withId)>>]

\* the sequences of distinct days, in any order, up to length n
RECURSIVE DayOrders(_)
DayOrders(n) ==
    IF n = 0 THEN {<<>>}
    ELSE LET shorter == DayOrders(n - 1)
         IN  shorter \cup
             {Append(l, d) : l \in {x \in shorter : Len(x) = n - 1},
                             d \in LoadDays}

\* the stored datasets: weeks of distinct start dates in any order
StoredDatasets ==
    {[i \in 1..Len(o) |-> StoredWeek(o[i], withId)] :
        o \in {x \in DayOrders(MaxLoadWeeks) :
                  \A i, j \in 1..Len(x) : i # j => x[i] # x[j]},
        withId \in BOOLEAN}

\* normalizeEntry(entry, type, fallbackDate)
normalizeEntry(entry, type, fallbackDate) ==
    [id           |-> Or(entry.id,
                         fallbackDate \o <<"-">>
                           \o Or(entry.currencyCode,
                                 Or(entry.currSgn, <<"U", "N", "K", "N", "O", "W", "N">>))
                           \o <<"-">> \o <<type>>),
     countryCode  |-> Or(entry.countryCode, Or(entry.cntySgn, <<>>)),
     currencyName |-> Or(entry.currencyName, Or(entry.mtryUtNm, <<>>)),
     currencyCode |-> Or(entry.currencyCode, Or(entry.currSgn, <<>>)),
     rate         |-> IF entry.rate.k \in {"fin", "inf", "nan"} THEN entry.rate ELSE Finite(0),
     date         |-> Or(entry.date, fallbackDate),
     type         |-> type]

\* a load that reads only week.date for the start date
fetchRateDataset_DateOnly(raw) ==
    [i \in 1..Len(raw) |->
        LET startDate == Or(raw[i].date, <<>>)
        IN  [startDate |-> startDate,
             import |-> [n \in 1..Len(raw[i].import) |->
                            normalizeEntry(raw[i].import[n], "import", startDate)],
             export |-> [n \in 1..Len(raw[i].export) |->
                            normalizeEntry(raw[i].export[n], "export", startDate)]]]

\* fetchRateDataset after response.json(): the weeks mapped one by one, in
\* the stored order
fetchRateDataset(raw) ==
    [i \in 1..Len(raw) |->
        LET startDate == Or(raw[i].startDate, Or(raw[i].date, <<>>))
        IN  [startDate |-> startDate,
             import |-> [n \in 1..Len(raw[i].import) |->
                            normalizeEntry(raw[i].import[n], "import", startDate)],
             export |-> [n \in 1..Len(raw[i].export) |->
                            normalizeEntry(raw[i].export[n], "export", startDate)]]]

\* the characters of a start date in code-unit order
DateChars == <<"-", "0", "1", "2", "3", "4", "5", "6", "7", "8", "9">>
CharPlace(c) == CHOOSE n \in 1..Len(DateChars) : DateChars[n] = c

\* a < b as JavaScript compares strings
RECURSIVE TextLess(_, _)
TextLess(a, b) ==
    IF b = <<>> THEN FALSE
    ELSE IF a = <<>> THEN TRUE
    ELSE IF Head(a) = Head(b) THEN TextLess(Tail(a), Tail(b))
    ELSE CharPlace(Head(a)) < CharPlace(Head(b))

\* the weeks sorted descending by start date (a stable sort)
RECURSIVE SortWeeksDescending(_)
SortWeeksDescending(ws) ==
    IF Len(ws) = 0 THEN <<>>
    ELSE LET first == CHOOSE i \in 1..Len(ws) :
                          /\ \A j \in 1..Len(ws) : ~TextLess(ws[i].startDate, ws[j].startDate)
                          /\ \A j \in 1..(i - 1) : TextLess(ws[j].startDate, ws[i].startDate)
             rest == [j \in 1..(Len(ws) - 1) |-> IF j < first THEN ws[j] ELSE ws[j + 1]]
         IN  <<ws[first]>> \o SortWeeksDescending(rest)

InitLoad ==
    /\ pcL = "input"
    /\ persisted \in StoredDatasets
    /\ dataset = <<>>
    /\ now \in RunInstants
    /\ \A t \in RunInstants : now <= t
    /\ tz \in RunZones
    /\ file = [state |-> "absent", weeks |-> <<>>]
    /\ table = <<>>
    /\ exitCode = -1
    /\ RunIdle
    /\ SundaysIdle
    /\ CleanIdle
    /\ TableIdle
    /\ EscapeIdle
    /\ AppIdle

\* the load on mount: fetchRateDataset resolves and the weeks are sorted
LoadDataset ==
    /\ pcL = "input"
    /\ dataset' = SortWeeksDescending(fetchRateDataset(persisted))
    /\ pcL' = "loaded"
    /\ UNCHANGED <<now, tz, persisted, runVars, sundayVars, cleanVars, tableVars,
                   escapeVars, appVars>>

\* fetchRateDataset throws (the response is not ok): the error is logged
\* and no dataset is set
LoadDatasetFails ==
    /\ pcL = "input"
    /\ dataset' = <<>>
    /\ pcL' = "failed"
    /\ UNCHANGED <<now, tz, persisted, runVars, sundayVars, cleanVars, tableVars,
                   escapeVars, appVars>>

NextLoad == LoadDataset \/ LoadDatasetFails

SpecLoad == InitLoad /\ [][NextLoad]_vars

----------------------------------------------------------------------------
(* SpecApp: the effects of App (src/App.tsx): the data load and the        *)
(* polling for the next week's rates.                                      *)

\* largest number of instances of the polling effect in the life of App
MaxEffects == 4

\* checkNewRates up to its await: it returns at once when
\* getNextWeekSundayIfApplicable gives nothing or when the allData of its
\* closure already has the next week, otherwise its fetch is out
CheckStarts(saw) ==
    {IF applicable /\ ~saw THEN "fetching" ELSE "done" : applicable \in BOOLEAN}

\* if (pollingRef.current) clearTimeout(pollingRef.current): the timer set
\* last is cancelled when it is still pending
ClearTimeout(p, ref) ==
    IF ref # 0 /\ p[ref].st = "timer" THEN [p EXCEPT ![ref].st = "cleared"] ELSE p

\* the polling effect runs again: its cleanup, then a new instance whose
\* closure holds the allData of this render and which calls checkNewRates
Rerun(p, ref, saw) ==
    {Append(ClearTimeout(p, ref), [st |-> st, saw |-> saw]) : st \in CheckStarts(saw)}

InitApp ==
    /\ AppIdle
    /\ now \in RunInstants
    /\ \A t \in RunInstants : now <= t
    /\ tz \in RunZones
    /\ file = [state |-> "absent", weeks |-> <<>>]
    /\ table = <<>>
    /\ exitCode = -1
    /\ RunIdle
    /\ SundaysIdle
    /\ CleanIdle
    /\ TableIdle
    /\ EscapeIdle
    /\ LoadIdle

\* App mounts: the load effect calls loadData, which awaits its fetches,
\* and the polling effect calls checkNewRates
Mount ==
    /\ mounted = "no"
    /\ mounted' = "yes"
    /\ loads' = {[id |-> 1, type |-> activeType]}
    /\ poll' \in Rerun(poll, pollingRef, hasNext)
    /\ UNCHANGED <<activeType, hasNext, loadedType, loadSettled, pollingRef>>
    /\ UNCHANGED <<now, tz, runVars, sundayVars, cleanVars, tableVars, escapeVars, loadVars>>

\* the user switches between import and export: both effects are cleaned
\* up and run again
ChangeType ==
    /\ mounted = "yes"
    /\ Len(poll) < MaxEffects
    /\ activeType' = IF activeType = RateType_IMPORT THEN RateType_EXPORT ELSE RateType_IMPORT
    /\ loads' = loads \cup {[id |-> Len(poll) + 1, type |-> activeType']}
    /\ poll' \in Rerun(poll, pollingRef, hasNext)
    /\ UNCHANGED <<mounted, hasNext, loadedType, loadSettled, pollingRef>>
    /\ UNCHANGED <<now, tz, runVars, sundayVars, cleanVars, tableVars, escapeVars, loadVars>>

\* the Promise.all of a loadData call resolves: setAllData and
\* setCurrentWeekData; on a mounted App the polling effect runs again
LoadResolves ==
    /\ \E l \in loads :
        /\ loads' = loads \ {l}
        /\ loadSettled' = (loadSettled \/ l.id = 1)
        /\ loadedType' = IF mounted = "yes" THEN l.type ELSE loadedType
    /\ IF mounted = "yes"
       THEN /\ Len(poll) < MaxEffects
            /\ \E h \in BOOLEAN :
                /\ hasNext' = h
                /\ poll' \in Rerun(poll, pollingRef, h)
       ELSE UNCHANGED <<hasNext, poll>>
    /\ UNCHANGED <<mounted, activeType, pollingRef>>
    /\ UNCHANGED <<now, tz, runVars, sundayVars, cleanVars, tableVars, escapeVars, loadVars>>

\* the Promise.all of a loadData call rejects: the error is logged
LoadRejects ==
    /\ \E l \in loads :
        /\ loads' = loads \ {l}
        /\ loadSettled' = (loadSettled \/ l.id = 1)
    /\ UNCHANGED <<mounted, activeType, hasNext, loadedType, poll, pollingRef>>
    /\ UNCHANGED <<now, tz, runVars, sundayVars, cleanVars, tableVars, escapeVars, loadVars>>

\* the fetch of a checkNewRates call gives records: the states are set; on
\* a mounted App the polling effect runs again
PollResolvesData ==
    /\ \E g \in 1..Len(poll) :
        /\ poll[g].st = "fetching"
        /\ IF mounted = "yes"
           THEN /\ Len(poll) < MaxEffects
                /\ hasNext' = TRUE
                /\ poll' \in Rerun([poll EXCEPT ![g].st = "done"], pollingRef, TRUE)
           ELSE /\ hasNext' = hasNext
                /\ poll' = [poll EXCEPT ![g].st = "done"]
    /\ UNCHANGED <<mounted, activeType, loads, loadedType, loadSettled, pollingRef>>
    /\ UNCHANGED <<now, tz, runVars, sundayVars, cleanVars, tableVars, escapeVars, loadVars>>

\* the fetch of a checkNewRates call gives nothing:
\* pollingRef.current = setTimeout(checkNewRates, 15 * 60 * 1000)
PollResolvesEmpty ==
    /\ \E g \in 1..Len(poll) :
        /\ poll[g].st = "fetching"
        /\ poll' = [poll EXCEPT ![g].st = "timer"]
        /\ pollingRef' = g
    /\ UNCHANGED <<mounted, activeType, hasNext, loads, loadedType, loadSettled>>
    /\ UNCHANGED <<now, tz, runVars, sundayVars, cleanVars, tableVars, escapeVars, loadVars>>

\* the fetch of a checkNewRates call rejects: the call ends there
PollRejects ==
    /\ \E g \in 1..Len(poll) :
        /\ poll[g].st = "fetching"
        /\ poll' = [poll EXCEPT ![g].st = "done"]
    /\ UNCHANGED <<mounted, activeType, hasNext, loads, loadedType, loadSettled, pollingRef>>
    /\ UNCHANGED <<now, tz, runVars, sundayVars, cleanVars, tableVars, escapeVars, loadVars>>

\* a pending timer fires: checkNewRates of the instance that set it runs
TimerFires ==
    /\ \E g \in 1..Len(poll) :
        /\ poll[g].st = "timer"
        /\ \E st \in CheckStarts(poll[g].saw) : poll' = [poll EXCEPT ![g].st = st]
    /\ UNCHANGED <<mounted, activeType, hasNext, loads, loadedType, loadSettled, pollingRef>>
    /\ UNCHANGED <<now, tz, runVars, sundayVars, cleanVars, tableVars, escapeVars, loadVars>>

\* App unmounts: the cleanups of both effects run
Unmount ==
    /\ mounted = "yes"
    /\ mounted' = "gone"
    /\ poll' = ClearTimeout(poll, pollingRef)
    /\ UNCHANGED <<activeType, hasNext, loads, loadedType, loadSettled, pollingRef>>
    /\ UNCHANGED <<now, tz, runVars, sundayVars, cleanVars, tableVars, escapeVars, loadVars>>

NextApp ==
    \/ Mount
    \/ ChangeType
    \/ LoadResolves
    \/ LoadRejects
    \/ PollResolvesData
    \/ PollResolvesEmpty
    \/ PollRejects
    \/ TimerFires
    \/ Unmount

SpecApp == InitApp /\ [][NextApp]_vars

----------------------------------------------------------------------------
(* SpecSundays: getRecentSundays applied to every instant, timezone and    *)
(* count of the bounded input sets.                                        *)

WindowStarts == {WindowStartYear, WindowStartLeap}

\* every full hour of every window
NowInstants ==
    {(s + d) * 1440 + h * 60 : s \in WindowStarts, d \in 0..(WindowDays - 1), h \in 0..23}

\* fixed offsets UTC-12 .. UTC+14
FixedZones == {[base |-> 60 * h, shiftAt |-> 0, shift |-> 0] : h \in -12..14}

\* zones whose offset moves by an hour (daylight saving) at 14:00 UTC on one
\* of the first days of a window (02:00 local time in a UTC+12 zone)
ShiftingZones ==
    {[base |-> 60 * h, shiftAt |-> (s + d) * 1440 + 14 * 60, shift |-> sh] :
        h \in {-8, 12}, s \in WindowStarts, d \in 0..2, sh \in {-60, 60}}

InitSundays ==
    /\ now \in NowInstants
    /\ tz \in FixedZones \cup ShiftingZones
    /\ count \in 1..MaxCount
    /\ pcS = "input"
    /\ revision = "none"
    /\ dates = <<>>
    /\ file = [state |-> "absent", weeks |-> <<>>]
    /\ table = <<>>
    /\ exitCode = -1
    /\ RunIdle
    /\ CleanIdle
    /\ RestIdle

CallGetRecentSundays ==
    /\ pcS = "input"
    /\ dates' = getRecentSundays(count)
    /\ revision' = "part_000"
    /\ pcS' = "done"
    /\ UNCHANGED <<now, tz, count, runVars, cleanVars, restVars>>

CallGetRecentSundays_001 ==
    /\ pcS = "input"
    /\ dates' = getRecentSundays_001(count)
    /\ revision' = "part_001"
    /\ pcS' = "done"
    /\ UNCHANGED <<now, tz, count, runVars, cleanVars, restVars>>

NextSundays == CallGetRecentSundays \/ CallGetRecentSundays_001

SpecSundays == InitSundays /\ [][NextSundays]_vars

----------------------------------------------------------------------------
(* Reading an anchor back: the day number a YYYYMMDD text denotes. *)

CompactDay(s) ==
    DaysFromCivil(ParseDigits(substring(s, 0, 4)),
                  ParseDigits(substring(s, 4, 6)),
                  ParseDigits(substring(s, 6, 8)))

\* today's date in UTC+9
TodayKst == (now + 9 * 60) \div 1440

\* the machine's UTC offset is the same at now and at the shifted instant
SteadyOffset == LocalOffset(now) = LocalOffset(kstDate)

----------------------------------------------------------------------------
(* Claims about getRecentSundays. *)

FirstAnchorDay == CompactDay(dates[1])

\* C2 as stated: in every revision the first anchor returned by
\* getRecentSundays is the most recent Sunday at or before now in UTC+9:
\* a Sunday, never later than today's UTC+9 date, and less than a week old.
C2_FirstAnchorAtOrBeforeNow ==
    pcS = "done" =>
        /\ getDay(FirstAnchorDay) = 0
        /\ FirstAnchorDay <= TodayKst
        /\ TodayKst - FirstAnchorDay < 7

\* C2 amended: when the machine's UTC offset is the same at now and at the
\* shifted instant, part_000 returns as first anchor the first Sunday at or
\* after today's UTC+9 date (today on a Sunday, otherwise the coming Sunday),
\* and part_001 / part_002 return the most recent Sunday at or before it.
C2_FirstAnchorByRevision ==
    (pcS = "done" /\ SteadyOffset) =>
        /\ revision = "part_000" =>
              FirstAnchorDay = TodayKst + ((7 - getDay(TodayKst)) % 7)
        /\ revision = "part_001" =>
              FirstAnchorDay = TodayKst - getDay(TodayKst)

\* C2 witness: part_000 ran on a day that is not a Sunday in UTC+9, on a
\* machine west of UTC whose local date differs from the UTC+9 date
C2_Witness ==
    /\ pcS = "done"
    /\ revision = "part_000"
    /\ SteadyOffset
    /\ getDay(TodayKst) = 3
    /\ LocalDay(now) # TodayKst
    /\ FirstAnchorDay = TodayKst + 4

\* C3: getRecentSundays(N), N >= 1, returns exactly N anchors, every anchor
\* is a Sunday written as eight digits, and consecutive anchors are exactly
\* 7 days apart, descending, across month and year boundaries too.
C3_AnchorsWeeklyDescending ==
    pcS = "done" =>
        /\ Len(dates) = count
        /\ \A i \in 1..Len(dates) :
              /\ Len(dates[i]) = 8
              /\ getDay(CompactDay(dates[i])) = 0
              /\ FormatCompact(CompactDay(dates[i])) = dates[i]
        /\ \A i \in 1..(Len(dates) - 1) :
              CompactDay(dates[i]) - CompactDay(dates[i + 1]) = 7

\* C3 witness: three anchors that cross a year boundary
C3_Witness ==
    /\ pcS = "done"
    /\ Len(dates) >= 3
    /\ substring(dates[1], 0, 4) # substring(dates[3], 0, 4)

----------------------------------------------------------------------------
(* SpecClean: fetchWeek's mapping and filtering applied to every parsed    *)
(* answer of the bounded input set.                                        *)

\* largest number of items in an answer
MaxItems == 2

\* the anchor the answers are asked for
CleanDate == <<"2", "0", "2", "4", "0", "1", "0", "7">>

\* the fxrt values of an item: a decimal, the empty text, a text that is no
\* number, a negative number, Infinity, and no fxrt at all
RateTexts ==
    {<<"1", "3", "0", "0", ".", "5">>, <<>>, <<"a", "b", "c">>, <<"-", "5">>,
     <<"I", "n", "f", "i", "n", "i", "t", "y">>, Undefined}

RECURSIVE ItemLists(_, _)
ItemLists(type, n) ==
    IF n = 0 THEN {<<>>}
    ELSE LET shorter == ItemLists(type, n - 1)
         IN  shorter \cup
             {Append(l, UpstreamItem(CleanDate, type, USD, fx)) :
                 l \in {x \in shorter : Len(x) = n - 1}, fx \in RateTexts}

ParsedAnswers(type) ==
    {[kind |-> "undefined", v |-> <<>>]}
      \cup {[kind |-> "object", v |-> l] : l \in {x \in ItemLists(type, 1) : Len(x) = 1}}
      \cup {[kind |-> "array", v |-> l] : l \in ItemLists(type, MaxItems)}

InitClean ==
    /\ pcC = "input"
    /\ xmlType \in RateTypes
    /\ xmlItems \in ParsedAnswers(xmlType)
    /\ cleaned = Null
    /\ now \in RunInstants
    /\ \A t \in RunInstants : now <= t
    /\ tz \in RunZones
    /\ file = [state |-> "absent", weeks |-> <<>>]
    /\ table = <<>>
    /\ exitCode = -1
    /\ RunIdle
    /\ SundaysIdle
    /\ RestIdle

\* fetchWeek from parser.parse on: the items are mapped and filtered
CleanItems ==
    /\ pcC = "input"
    /\ cleaned' = FetchWeekResult(xmlItems, CleanDate, xmlType)
    /\ pcC' = "done"
    /\ UNCHANGED <<now, tz, xmlItems, xmlType, runVars, sundayVars, restVars>>

NextClean == CleanItems

SpecClean == InitClean /\ [][NextClean]_vars

\* the rate text parses to a finite number
ParsesFinite(fxrt) == Number(fxrt).k = "fin"

\* C6 as stated: every item whose fxrt does not parse to a finite number
\* is left out of the list fetchWeek returns, and every record returned has
\* a finite, non-negative rate.
C6_OnlyFiniteNonNegativeRates ==
    pcC = "done" =>
        /\ Len(cleaned.list) =
              Cardinality({i \in 1..Len(ItemList(xmlItems)) :
                              ParsesFinite(ItemList(xmlItems)[i].fxrt)})
        /\ \A n \in 1..Len(cleaned.list) :
              /\ cleaned.list[n].rate.k = "fin"
              /\ cleaned.list[n].rate.v >= 0

----------------------------------------------------------------------------
(* Claims about the generator runs (Spec). *)

\* the day number a YYYY-MM-DD text denotes
DisplayDay(s) ==
    DaysFromCivil(ParseDigits(substring(s, 0, 4)),
                  ParseDigits(substring(s, 5, 7)),
                  ParseDigits(substring(s, 8, 10)))

\* the anchors of the run in display form
AnchorDates == {formatDateForDisplay(sundays[i]) : i \in 1..Len(sundays)}

\* the run is between the start of main and the end of the process
Running == pc \in {"await", "built", "written"}

\* every record of the week carries the rate the upstream publishes now
FreshWeek(w) ==
    /\ \A n \in 1..Len(w.export) : w.export[n].rate = Number(PublishedRate)
    /\ \A n \in 1..Len(w.import) : w.import[n].rate = Number(PublishedRate)

\* C1: for an anchor whose fetch failed (a fetchWeek returned null) while
\* the snapshot on disk holds a week with that startDate, the weeks
\* buildDataset assembles contain that stored week, unchanged.
C1_FailedAnchorReusesStoredWeek ==
    (pc \in {"await", "built"} /\ file.state = "json") =>
        \A i \in 1..Len(fetched) : \A j \in 1..Len(file.weeks) :
            (/\ ~fetched[i].both
             /\ file.weeks[j].startDate = formatDateForDisplay(fetched[i].date))
            => \E k \in 1..Len(weeks) : weeks[k] = file.weeks[j]

\* C1 witness: the dataset is assembled, with a credential; an anchor
\* failed and its stored week, published earlier at another rate, is in it
C1_Witness ==
    /\ pc = "built"
    /\ SERVICE_KEY # <<>>
    /\ file.state = "json"
    /\ \E i \in 1..Len(fetched) : \E j \in 1..Len(file.weeks) :
        /\ ~fetched[i].both
        /\ file.weeks[j].startDate = formatDateForDisplay(fetched[i].date)
        /\ ~FreshWeek(file.weeks[j])
        /\ \E k \in 1..Len(weeks) : weeks[k] = file.weeks[j]

\* C4: in one run every (anchor, direction) pair gets exactly one HTTP
\* request when a credential is configured and none when it is missing;
\* no pair ever gets a second request, a failed one included.
C4_OneRequestPerAnchorAndDirection ==
    /\ \A k \in DOMAIN requests :
        /\ requests[k] <= 1
        /\ SERVICE_KEY = <<>> => requests[k] = 0
    /\ pc \in {"built", "written"} =>
        /\ DOMAIN requests = {<<sundays[i], t>> : i \in 1..Len(sundays), t \in RateTypes}
        /\ \A k \in DOMAIN requests :
              requests[k] = IF SERVICE_KEY # <<>> THEN 1 ELSE 0

\* C4 witness: a finished run with a credential in which an anchor failed
C4_Witness ==
    /\ pc = "built"
    /\ SERVICE_KEY # <<>>
    /\ Len(sundays) = WEEK_COUNT
    /\ \E i \in 1..Len(fetched) : ~fetched[i].both
    /\ \A k \in DOMAIN requests : requests[k] = 1

C7_MockWeeksWithoutCredential ==
    LET MockCodes == {USD, JPY, EUR, CNY, <<"G", "B", "P">>, <<"H", "K", "D">>,
                      <<"C", "A", "D">>, <<"A", "U", "D">>}
        MockList(l) ==
            /\ {l[n].currencyCode : n \in 1..Len(l)} = MockCodes
            /\ Len(l) = Cardinality(MockCodes)
            /\ \A n \in 1..Len(l) : l[n].rate.k = "fin" /\ l[n].rate.v > 0
    IN  (pc = "built" /\ SERVICE_KEY = <<>>) =>
            /\ Len(weeks) = Len(sundays)
            /\ \A k \in 1..Len(weeks) :
                  /\ weeks[k].startDate = formatDateForDisplay(sundays[k])
                  /\ MockList(weeks[k].export)
                  /\ MockList(weeks[k].import)

\* C8: when a run writes the snapshot, every week the snapshot held before
\* whose startDate is among the run's anchors is still held after: the
\* week fetched in this run if both directions were fetched, otherwise the
\* stored week unchanged.
C8_StoredWeekSurvivesRun ==
    [][(pc = "built" /\ pc' = "written" /\ file.state = "json") =>
          \A j \in 1..Len(file.weeks) :
              file.weeks[j].startDate \in AnchorDates =>
                  \E k \in 1..Len(file'.weeks) :
                      /\ file'.weeks[k].startDate = file.weeks[j].startDate
                      /\ \E i \in 1..Len(fetched) :
                          /\ formatDateForDisplay(fetched[i].date) = file.weeks[j].startDate
                          /\ IF fetched[i].both
                             THEN FreshWeek(file'.weeks[k])
                             ELSE file'.weeks[k] = file.weeks[j]]_vars

\* C8 witness: a snapshot was just written in which the week of a failed
\* anchor is the one the earlier snapshot held, published at an older rate
C8_Witness ==
    /\ pc = "written"
    /\ \E i \in 1..Len(fetched) :
        LET d == formatDateForDisplay(fetched[i].date)
        IN  /\ ~fetched[i].both
            /\ d \in DOMAIN existingWeeksMap
            /\ ~FreshWeek(existingWeeksMap[d])
            /\ \E k \in 1..Len(file.weeks) : file.weeks[k] = existingWeeksMap[d]
    /\ \E i \in 1..Len(fetched) : fetched[i].both

\* the weeks are most recent first, a whole number of weeks apart
DescendingWeekly(ws) ==
    /\ \A i \in 1..Len(ws) : Len(ws[i].startDate) = 10
    /\ \A i \in 1..(Len(ws) - 1) :
        /\ DisplayDay(ws[i].startDate) > DisplayDay(ws[i + 1].startDate)
        /\ (DisplayDay(ws[i].startDate) - DisplayDay(ws[i + 1].startDate)) % 7 = 0
        /\ Len(ws) = WEEK_COUNT =>
              DisplayDay(ws[i].startDate) - DisplayDay(ws[i + 1].startDate) = 7
    /\ \A i, j \in 1..Len(ws) : i # j => ws[i].startDate # ws[j].startDate

\* C9: in every dataset the generator assembles and writes, start dates of
\* consecutive weeks strictly decrease, by exactly 7 days when every anchor
\* produced a week and by a positive multiple of 7 days otherwise, and no
\* start date occurs twice.
C9_WeeksMostRecentFirst ==
    /\ DescendingWeekly(file.weeks)
    /\ pc \in {"built", "written"} => DescendingWeekly(weeks)

\* C9 witness: a written snapshot of two weeks with an omitted week between
C9_Witness ==
    /\ pc = "written"
    /\ Len(file.weeks) = 2
    /\ DisplayDay(file.weeks[1].startDate) - DisplayDay(file.weeks[2].startDate) = 14

\* C10: at most two requests are in flight; the calls that exist are the two
\* of the anchor being processed, made together; the anchor is not
\* finalized while they are awaited; a week is finalized only when both of
\* its calls are done, and calls for the next anchor start only then.
C10_AnchorsOneAtATime ==
    /\ [](/\ Cardinality({k \in DOMAIN fetch : InFlight(k)}) <= 2
          /\ \A k \in DOMAIN fetch :
                /\ pc = "await"
                /\ k[1] = sundays[idx]
                /\ \A t \in RateTypes : <<k[1], t>> \in DOMAIN fetch
                /\ SERVICE_KEY # <<>> => \A t \in RateTypes : requests[<<k[1], t>>] = 1
          /\ pc = "await" => Len(fetched) = idx - 1)
    /\ [][/\ Len(fetched') > Len(fetched) =>
                \A t \in RateTypes : fetch[<<sundays[idx], t>>].st = "done"
          /\ (DOMAIN fetch' \ DOMAIN fetch # {}) =>
                \A k \in DOMAIN fetch : fetch[k].st = "done"]_vars

\* C10 witness: the first anchor is finalized and both requests of the
\* second anchor are in flight
C10_Witness ==
    /\ pc = "await"
    /\ idx = 2
    /\ Len(fetched) = 1
    /\ \A t \in RateTypes :
        /\ <<sundays[2], t>> \in DOMAIN fetch
        /\ InFlight(<<sundays[2], t>>)

\* C11: while the anchors are fetched the process never ends, whatever the
\* requests do, and every anchor is finalized before the dataset is built;
\* when writeDataset does not write the assembled dataset the process ends
\* at once with exit status 1 and without a table written in that run;
\* a table is written only after the snapshot was written.
C11_UpstreamAbsorbedWriteFatal ==
    /\ [](pc = "await" => exitCode = -1)
    /\ [](pc \in {"built", "written"} => Len(fetched) = Len(sundays))
    /\ [][/\ pc = "await" => pc' \in {"await", "built"} /\ exitCode' = -1
          /\ (pc = "built" /\ pc' # "written") =>
                pc' = "idle" /\ exitCode' = 1 /\ table = <<>> /\ table' = <<>>
          /\ (pc = "built" /\ pc' = "written") =>
                file' = [state |-> "json", weeks |-> JsonWeeks(weeks)]
          /\ (table' # table /\ table' # <<>>) =>
                pc = "written" /\ exitCode' = 0]_vars

\* C11 witness: a run ended with exit status 1 on a snapshot write that
\* left the file cut off, and no table was written in it
C11_Witness ==
    /\ pc = "idle"
    /\ exitCode = 1
    /\ file.state = "corrupt"
    /\ table = <<>>

----------------------------------------------------------------------------
(* Claims about the records fetchWeek makes (SpecClean). *)

\* the decimal rate text of the bounded inputs, 1300.5
DecimalText == <<"1", "3", "0", "0", ".", "5">>

----------------------------------------------------------------------------
(* Claims about the records of a dataset (SpecGenerators, SpecMock). *)

\* all records of the weeks, export and import lists together
RecordsOf(ws) ==
    UNION {{ws[k].export[n] : n \in 1..Len(ws[k].export)}
             \cup {ws[k].import[n] : n \in 1..Len(ws[k].import)} : k \in 1..Len(ws)}

\* every record has its week's startDate as date and its list's direction
\* as type
RecordsMatchWeek(ws) ==
    \A k \in 1..Len(ws) :
        /\ \A n \in 1..Len(ws[k].export) :
              ws[k].export[n].date = ws[k].startDate /\ ws[k].export[n].type = "export"
        /\ \A n \in 1..Len(ws[k].import) :
              ws[k].import[n].date = ws[k].startDate /\ ws[k].import[n].type = "import"

\* C13: in every dataset a generator assembles and writes, with fresh,
\* reused or mock weeks, every record's date is its week's startDate, every
\* record of an export list has type 'export' and every record of an import
\* list has type 'import'.
C13_RecordsShareWeekDate ==
    /\ RecordsMatchWeek(weeks)
    /\ RecordsMatchWeek(file.weeks)

\* C13 witness: part_001 wrote a dataset with a week whose export list is
\* mock data and whose import list was fetched
C13_Witness ==
    /\ revision = "part_001"
    /\ pc = "written"
    /\ \E k \in 1..Len(file.weeks) :
        /\ Len(file.weeks[k].export) = Len(MockCurrencies)
        /\ Len(file.weeks[k].import) = 1
        /\ file.weeks[k].import[1].rate = Number(PublishedRate)

\* C14 as stated: within one dataset two records that differ in week date,
\* currency code or direction never carry the same identifier.
C14_IdentifiersDistinct ==
    \A r1, r2 \in RecordsOf(weeks) :
        (r1.date # r2.date \/ r1.currencyCode # r2.currencyCode \/ r1.type # r2.type)
            => r1.id # r2.id

----------------------------------------------------------------------------
(* Claims about the latest-week table (SpecTable). *)

\* place of a code in the shortlist, 0 when it is not in it
ShortlistPlace(code) ==
    IF \E n \in 1..Len(IMPORTANT_CODES) : IMPORTANT_CODES[n] = toUpperCase(code)
    THEN CHOOSE n \in 1..Len(IMPORTANT_CODES) : IMPORTANT_CODES[n] = toUpperCase(code)
    ELSE 0

\* the rows rendered for a list: shortlist currencies only, in shortlist
\* order, one row at most per currency, a row exactly for the shortlist
\* currencies the list has a record of (whatever the case of its code),
\* and every row a record of the list
RowsOfList(rows, list) ==
    /\ Len(rows) <= Len(IMPORTANT_CODES)
    /\ \A m \in 1..Len(rows) :
          /\ ShortlistPlace(rows[m].currencyCode) > 0
          /\ \E n \in 1..Len(list) : list[n] = rows[m]
    /\ \A m1, m2 \in 1..Len(rows) :
          m1 < m2 => ShortlistPlace(rows[m1].currencyCode) < ShortlistPlace(rows[m2].currencyCode)
    /\ \A c \in 1..Len(IMPORTANT_CODES) :
          (\E n \in 1..Len(list) : ShortlistPlace(list[n].currencyCode) = c)
            <=> (\E m \in 1..Len(rows) : ShortlistPlace(rows[m].currencyCode) = c)

\* C15: the page is rendered from the most recent week of the dataset and,
\* for each direction, holds at most one row per shortlist currency in the
\* order USD, EUR, CNY, JPY: a row exactly when the week's list has a record
\* of that currency, none for a currency outside the shortlist or missing.
C15_ShortlistRowsOfLatestWeek ==
    pcT \in {"memory", "snapshot"} =>
        /\ html.startDate = payload[1].startDate
        /\ \A k \in 1..Len(payload) :
              DisplayDay(payload[k].startDate) <= DisplayDay(html.startDate)
        /\ RowsOfList(html.export, payload[1].export)
        /\ RowsOfList(html.import, payload[1].import)

\* C15 witness: a dataset of two weeks whose latest week lists JPY before
\* CNY for import and a code outside the shortlist and a lower-case usd for
\* export: the page shows CNY before JPY and the one row usd
C15_Witness ==
    /\ pcT = "memory"
    /\ Len(payload) = 2
    /\ Len(payload[1].import) = 2
    /\ payload[1].import[1].currencyCode = JPY
    /\ Len(html.import) = 2
    /\ html.import[1].currencyCode = CNY
    /\ html.import[2].currencyCode = JPY
    /\ Len(payload[1].export) = 2
    /\ payload[1].export[1].currencyCode = GBP
    /\ Len(html.export) = 1
    /\ html.export[1].currencyCode = <<"u", "s", "d">>

----------------------------------------------------------------------------
(* Claims about escapeHtml (SpecEscape). *)

\* the escaped text has none of the raw characters and every & in it
\* starts one of the five entities
WellEscaped(text) ==
    /\ \A i \in 1..Len(text) : text[i] \notin {"<", ">", "\"", "'"}
    /\ \A i \in 1..Len(text) :
          text[i] = "&" =>
              \E e \in {AMP, LT, GT, QUOT, APOS} :
                  /\ i + Len(e) - 1 <= Len(text)
                  /\ SubSeq(text, i, i + Len(e) - 1) = e

\* C16 as stated: for every string or number interpolated into the page
\* the escaped text has none of the raw characters <, >, ", ', every & in
\* it starts one of the five entities, and the value is not dropped: the
\* escaped text is at least as long as the value's text (0 renders as 0).
C16_EscapedAndKept ==
    (pcE = "done" /\ value.t \in {"string", "number"}) =>
        /\ WellEscaped(escaped)
        /\ Len(escaped) >= Len(StringOf(value))

----------------------------------------------------------------------------
(* Claims about the frontend's load (SpecLoad). *)

----------------------------------------------------------------------------
(* Claims about the effects of App (SpecApp). *)

\* C19 as stated: once the load made on mount has settled, no fetch is
\* issued any more (no loadData call starts, no checkNewRates call goes to
\* the network) and no timer is scheduled.
C19_SingleLoadNoPolling ==
    [][loadSettled =>
          /\ loads' \subseteq loads
          /\ \A g \in 1..Len(poll') :
                poll'[g].st \in {"fetching", "timer"} =>
                    (g <= Len(poll) /\ poll[g].st = poll'[g].st)]_vars

\* C20 as stated: a timer is pending only for the live instance of the
\* polling effect of a mounted App, never for an instance whose cleanup has
\* run, and at most one timer is pending.
C20_NoTimerAfterCleanup ==
    /\ \A g \in 1..Len(poll) :
          poll[g].st = "timer" => (mounted = "yes" /\ g = Len(poll))
    /\ Cardinality({g \in 1..Len(poll) : poll[g].st = "timer"}) <= 1

----------------------------------------------------------------------------
(* Claims about the week buildDataset assembles for an anchor (Spec). *)

\* C21: a week is never a mix of fresh and stored data. In the step of
\* buildDataset that follows the two fetches of an anchor: when exactly one
\* of them gave a list, that list is dropped and the week pushed is the
\* stored week of the anchor taken whole, or no week is pushed when none is
\* stored; and a week that is not the stored week of its anchor is pushed
\* only when both fetches gave a list, and holds exactly these two lists.
C21_NoMixedWeek ==
    [][(pc = "await" /\ idx' = idx + 1) =>
          LET date == sundays[idx]
              formattedDate == formatDateForDisplay(date)
              exportRates == fetch[<<date, RateType_EXPORT>>].result
              importRates == fetch[<<date, RateType_IMPORT>>].result
              stored == formattedDate \in DOMAIN existingWeeksMap
          IN  /\ (exportRates.isNull # importRates.isNull) =>
                    IF stored
                    THEN weeks' = Append(weeks, existingWeeksMap[formattedDate])
                    ELSE weeks' = weeks
              /\ \/ weeks' = weeks
                 \/ /\ Len(weeks') = Len(weeks) + 1
                    /\ \A k \in 1..Len(weeks) : weeks'[k] = weeks[k]
                    /\ \/ stored /\ weeks'[Len(weeks')] = existingWeeksMap[formattedDate]
                       \/ /\ ~exportRates.isNull
                          /\ ~importRates.isNull
                          /\ weeks'[Len(weeks')].startDate = formattedDate
                          /\ weeks'[Len(weeks')].export = exportRates.list
                          /\ weeks'[Len(weeks')].import = importRates.list]_vars

\* C21 witness: buildDataset has returned after a run in which one anchor
\* had exactly one fetch give a list and got the stored week, published at
\* an older rate, whole; another such anchor had no stored week and was
\* left out
C21_Witness ==
    /\ pc = "built"
    /\ \E i \in 1..Len(fetched) :
        LET d == formatDateForDisplay(fetched[i].date)
        IN  /\ fetched[i].any
            /\ ~fetched[i].both
            /\ d \in DOMAIN existingWeeksMap
            /\ ~FreshWeek(existingWeeksMap[d])
            /\ \E k \in 1..Len(weeks) : weeks[k] = existingWeeksMap[d]
    /\ \E i \in 1..Len(fetched) :
        LET d == formatDateForDisplay(fetched[i].date)
        IN  /\ fetched[i].any
            /\ ~fetched[i].both
            /\ d \notin DOMAIN existingWeeksMap
            /\ \A k \in 1..Len(weeks) : weeks[k].startDate # d

----------------------------------------------------------------------------
(* Claims about the two renderers of the latest-week page (SpecRender). *)

\* C23 as stated: for every dataset with at least one week, the page main
\* of buildTableFromSnapshot.js renders from the file writeDataset wrote is
\* the page writeTableHtml rendered from the dataset in memory.
C23_SnapshotRendersSamePage ==
    [][(pcT = "memory" /\ pcT' = "snapshot") => html' = html]_vars

----------------------------------------------------------------------------
(* Claims about the loads of App (SpecApp). *)

\* C22 as stated: whatever order the loads complete in, when the last
\* loadData call in flight resolves on a mounted App the result it puts
\* into the state is that of a load started for the active direction:
\* allData is never left holding the result of a load started for a
\* previous activeType.
C22_NoStaleLoadResult ==
    [][(mounted = "yes" /\ LoadResolves /\ loads' = {}) => loadedType' = activeType]_vars

====
